---- MODULE Spec2Model ----
(***************************************************************************)
(* Model of the multi-device vocabulary synchronisation of src/server.py:  *)
(* the words table (init_db), the database gate (db_lock, get_db_cursor)   *)
(* and the /api/sync handler (sync_words).                                 *)
(***************************************************************************)
EXTENDS Integers, Sequences, FiniteSets, TLC

\* ------------------------------------------------------------------ bounds
MaxRequests == 2      \* sync requests started in one behaviour
MaxWords    == 2      \* mutations carried by one request
MaxRef      == 2      \* largest server_id / original_id a client sends
MaxPayload  == 1      \* distinct payload contents a client sends
MaxLongWords == 41    \* mutations carried by one request of SpecPartition
MaxAnyPayload == 2    \* distinct payload contents sent in SpecAny
MaxTxnWords == 22     \* mutations carried by one request of SpecTransaction
MaxTxnRequests == 1   \* sync requests started in one behaviour of SpecTransaction
MaxLiveWords == 1     \* mutations carried by one request of SpecLive
MaxSerialWords == 21  \* mutations carried by the long request of SpecSerial

\* --------------------------------------------------------- program values
NULL == 0             \* SQL NULL / Python None of an integer column
batch_size == 20

Threads  == {"t1", "t2"}          \* request threads of the server
Readers  == {"r1"}                \* threads serving the read endpoints
retries  == 3                     \* get_db_connection: connection attempts
Devices  == {"D1", "D2"}          \* device_id tokens
NoThread == "none"

\* raw word texts a client sends, as character sequences: a blank one, and
\* two that differ in letter case and in surrounding blanks
RawWords == {<<" ">>, <<"a">>, <<"A", " ">>}
Refs     == {NULL} \cup (1..MaxRef)
Payloads == 1..MaxPayload

\* one element of the request's "words" list
WordMutation ==
  [word : RawWords, server_id : Refs, original_id : Refs,
   is_deleted : BOOLEAN, is_edited : BOOLEAN, payload : Payloads]

\* the elements clients send: a delete names its target by server_id or by
\* word; a create or an edit carries is_edited, original_id and the payload
Mutations ==
  {m \in WordMutation :
     IF m.is_deleted
     THEN ~m.is_edited /\ m.original_id = NULL /\ m.payload = 1
     ELSE m.server_id = NULL}

\* a list element whose "word" is JSON null: word.get('word', '') is None and
\* None.strip() raises AttributeError before word_text is assigned
JsonNull == <<"null">>
BadItem == [word |-> JsonNull, server_id |-> NULL, original_id |-> NULL,
            is_deleted |-> FALSE, is_edited |-> FALSE, payload |-> 1]
Items == Mutations \cup {BadItem}

\* the list element raises in the field reads of the try body
Raises(m) == m.word = JsonNull

\* the local word_text before its first assignment
Unbound == <<"unbound">>

\* ------------------------------------------------------------- str.strip
IsSpace(ch) == ch = " "

RECURSIVE LStrip(_)
LStrip(s) == IF s # <<>> /\ IsSpace(Head(s)) THEN LStrip(Tail(s)) ELSE s

RECURSIVE RStrip(_)
RStrip(s) ==
  IF s # <<>> /\ IsSpace(s[Len(s)]) THEN RStrip(SubSeq(s, 1, Len(s) - 1)) ELSE s

strip(s) == RStrip(LStrip(s))

\* ------------------------------------------------------------- str.title
Upper(ch) == IF ch = "a" THEN "A" ELSE ch
Lower(ch) == IF ch = "A" THEN "a" ELSE ch
IsCased(ch) == ch \in {"a", "A"}

\* the first cased character after an uncased one is upper-cased, every
\* other cased character is lower-cased
RECURSIVE TitleFrom(_, _)
TitleFrom(s, inWord) ==
  IF s = <<>> THEN <<>>
  ELSE <<IF inWord THEN Lower(Head(s)) ELSE Upper(Head(s))>>
         \o TitleFrom(Tail(s), IsCased(Head(s)))

title(s) == TitleFrom(s, FALSE)

\* ------------------------------------------------------------ words table
MaxOf(S) == CHOOSE x \in S : \A y \in S : y <= x
MinOf(S) == CHOOSE x \in S : \A y \in S : x <= y

Ids(W) == {r.id : r \in W}

\* faulty variant: the lookup without the device_id condition
ActiveRows_AnyDevice(W, w, d) ==
  {r \in W : r.word = w /\ r.is_deleted = 0}

\* faulty variant: the lookup selecting the tombstoned rows
ActiveRows_Deleted(W, w, d) ==
  {r \in W : r.word = w /\ r.device_id = d /\ r.is_deleted = 1}

\* SELECT ... WHERE word = ? AND device_id = ? AND is_deleted = 0
ActiveRows(W, w, d) ==
  {r \in W : r.word = w /\ r.device_id = d /\ r.is_deleted = 0}

\* UNIQUE INDEX idx_word_device ON words (word, device_id): the rows an
\* insert of (w, d) collides with, tombstones included
ConflictRows(W, w, d) == {r \in W : r.word = w /\ r.device_id = d}

\* faulty variant: ids allocated above the active rows only
NextRowId_ActiveOnly(W, seq) ==
  MaxOf({0} \cup {r.id : r \in {x \in W : x.is_deleted = 0}}) + 1

\* AUTOINCREMENT: the next rowid is above every rowid ever used
NextRowId(W, seq) == MaxOf({seq} \cup Ids(W)) + 1

\* faulty variant: no unique index and no table constraint, every insert
\* adds a row
InsertWord_NoConstraint(W, seq, row) ==
  LET id == MaxOf({seq} \cup Ids(W)) + 1
  IN [ok |-> TRUE, words |-> W \cup {[row EXCEPT !.id = id]},
      seq |-> id, lastrowid |-> id]

\* faulty variant: without idx_word_device the table's ON CONFLICT REPLACE
\* applies, the colliding rows are removed and the new row is inserted
InsertWord_Replace(W, seq, row) ==
  LET id == MaxOf({seq} \cup Ids(W)) + 1
      kept == W \ {r \in W : r.word = row.word /\ r.device_id = row.device_id}
  IN [ok |-> TRUE, words |-> kept \cup {[row EXCEPT !.id = id]},
      seq |-> id, lastrowid |-> id]

\* INSERT INTO words: the explicit unique index has the default ABORT
\* resolution and is checked before the table's ON CONFLICT REPLACE
\* constraint, so a colliding insert raises IntegrityError and writes nothing
InsertWord(W, seq, row) ==
  IF ConflictRows(W, row.word, row.device_id) # {}
  THEN [ok |-> FALSE, words |-> W, seq |-> seq, lastrowid |-> NULL]
  ELSE LET id == NextRowId(W, seq)
       IN [ok |-> TRUE, words |-> W \cup {[row EXCEPT !.id = id]},
           seq |-> id, lastrowid |-> id]

\* faulty variant: the delete by server_id without "AND is_deleted = 0"
DeleteByIdTargets_AnyRow(W, sid) ==
  {r \in W : r.id = sid \/ r.original_id = sid}

\* faulty variant: the delete by server_id without "OR original_id = ?"
DeleteByIdTargets_IdOnly(W, sid) ==
  {r \in W : r.id = sid /\ r.is_deleted = 0}

\* UPDATE words SET is_deleted = 1 ... WHERE (id = ? OR original_id = ?) AND is_deleted = 0
DeleteByIdTargets(W, sid) ==
  {r \in W : (r.id = sid \/ r.original_id = sid) /\ r.is_deleted = 0}

Tombstone(r, t) ==
  [r EXCEPT !.is_deleted = 1, !.last_synced = t, !.sync_status = "synced"]

TombstoneAll(W, T, t) == (W \ T) \cup {Tombstone(r, t) : r \in T}

\* UPDATE words SET is_deleted = 1, is_edited = 1 ... WHERE id = ? AND is_deleted = 0
MarkOriginal(W, oid, t) ==
  LET T == {r \in W : r.id = oid /\ r.is_deleted = 0}
  IN (W \ T) \cup {[Tombstone(r, t) EXCEPT !.is_edited = 1] : r \in T}

Bit(b) == IF b THEN 1 ELSE 0

NewRow(w, d, t, p, edited, oid) ==
  [id |-> NULL, word |-> w, device_id |-> d, payload |-> p,
   last_synced |-> t, is_deleted |-> 0, is_edited |-> edited,
   original_id |-> oid, sync_status |-> "synced"]

\* faulty variant: the update also rewrites original_id with the one sent
UpdateHead_Relink(W, head, m, t) ==
  (W \ {head}) \cup
  {[head EXCEPT !.payload = m.payload, !.is_edited = Bit(m.is_edited),
                !.last_synced = t, !.sync_status = "synced",
                !.original_id = m.original_id]}

\* faulty variant: the update leaves the payload columns as they are
UpdateHead_KeepPayload(W, head, m, t) ==
  (W \ {head}) \cup
  {[head EXCEPT !.is_edited = Bit(m.is_edited),
                !.last_synced = t, !.sync_status = "synced"]}

\* UPDATE words SET <payload>, is_edited = ?, last_synced = ? WHERE id = ?
UpdateHead(W, head, m, t) ==
  (W \ {head}) \cup
  {[head EXCEPT !.payload = m.payload, !.is_edited = Bit(m.is_edited),
                !.last_synced = t, !.sync_status = "synced"]}

\* ------------------------------------------------------------ merge engine
\* The body of "for word in batch" of sync_words for one element m sent by
\* device d at request time t, on the connection's view W of the words table.
\* counted: the increment of synced_count; ids: what is appended to
\* server_ids; error: an exception was caught by the per-item handler.
Result(W, seq, counted, ids, error) ==
  [words |-> W, seq |-> seq, counted |-> counted, ids |-> ids, error |-> error]

\* faulty variant: a delete by server_id reports the id in server_ids
MergeDelete_ReturnsId(W, seq, d, t, m) ==
  LET T == IF m.server_id # NULL
           THEN DeleteByIdTargets(W, m.server_id)
           ELSE ActiveRows(W, strip(m.word), d)
  IN Result(TombstoneAll(W, T, t), seq, IF T # {} THEN 1 ELSE 0,
            IF m.server_id # NULL THEN <<m.server_id>> ELSE <<>>, FALSE)

\* faulty variant: a delete by server_id that matches no row falls back to
\* the delete by word
MergeDelete_Fallback(W, seq, d, t, m) ==
  LET byId == IF m.server_id # NULL THEN DeleteByIdTargets(W, m.server_id) ELSE {}
      T    == IF byId # {} THEN byId ELSE ActiveRows(W, strip(m.word), d)
  IN Result(TombstoneAll(W, T, t), seq, IF T # {} THEN 1 ELSE 0, <<>>, FALSE)

\* if is_deleted: ... continue
MergeDelete(W, seq, d, t, m) ==
  LET T == IF m.server_id # NULL
           THEN DeleteByIdTargets(W, m.server_id)
           ELSE ActiveRows(W, strip(m.word), d)
  IN Result(TombstoneAll(W, T, t), seq, IF T # {} THEN 1 ELSE 0, <<>>, FALSE)

\* if is_edited: original_id = word.get('original_id'); if original_id: UPDATE
AfterMarkOriginal(W, t, m) ==
  IF m.is_edited /\ m.original_id # NULL THEN MarkOriginal(W, m.original_id, t) ELSE W

\* if existing: ... else: ...
MergeUpsert(W, seq, d, t, m) ==
  LET w  == strip(m.word)
      W1 == AfterMarkOriginal(W, t, m)
      E  == ActiveRows(W1, w, d)
  IN IF E # {}
     THEN LET existing == CHOOSE r \in E : r.id = MinOf(Ids(E))
          IN IF m.is_edited /\ existing.is_edited = 0
             THEN \* insert as new edited word with original_id reference
                  LET oid == IF m.original_id # NULL THEN m.original_id
                                                     ELSE existing.id
                      ins == InsertWord(W1, seq, NewRow(w, d, t, m.payload, 1, oid))
                  IN IF ins.ok
                     THEN Result(ins.words, ins.seq, 1, <<ins.lastrowid>>, FALSE)
                     ELSE Result(W1, seq, 0, <<>>, TRUE)
             ELSE \* update existing word
                  Result(UpdateHead(W1, existing, m, t), seq, 1, <<existing.id>>, FALSE)
     ELSE \* insert new word
          LET ins == InsertWord(W1, seq,
                       NewRow(w, d, t, m.payload, Bit(m.is_edited), m.original_id))
          IN IF ins.ok
             THEN Result(ins.words, ins.seq, 1, <<ins.lastrowid>>, FALSE)
             ELSE Result(W1, seq, 0, <<>>, TRUE)

\* faulty variant: the element is merged without the empty-word test
MergeItem_NoSkip(W, seq, d, t, m) ==
  IF Raises(m) THEN Result(W, seq, 0, <<>>, TRUE)
  ELSE IF m.is_deleted THEN MergeDelete(W, seq, d, t, m)
  ELSE MergeUpsert(W, seq, d, t, m)

\* faulty variant: the is_edited test placed before the is_deleted test
MergeItem_EditFirst(W, seq, d, t, m) ==
  IF Raises(m) THEN Result(W, seq, 0, <<>>, TRUE)
  ELSE IF strip(m.word) = <<>> THEN Result(W, seq, 0, <<>>, FALSE)
  ELSE IF m.is_edited THEN MergeUpsert(W, seq, d, t, m)
  ELSE IF m.is_deleted THEN MergeDelete(W, seq, d, t, m)
  ELSE MergeUpsert(W, seq, d, t, m)

\* one list element whose exception, if any, the per-item handler absorbs
MergeItem(W, seq, d, t, m) ==
  IF Raises(m) THEN Result(W, seq, 0, <<>>, TRUE)
  ELSE IF strip(m.word) = <<>> THEN Result(W, seq, 0, <<>>, FALSE)
  ELSE IF m.is_deleted THEN MergeDelete(W, seq, d, t, m)
  ELSE MergeUpsert(W, seq, d, t, m)

\* for word in batch: the list elements of one sub-batch merged in order;
\* error: some element raised inside the per-item try
RECURSIVE ApplyBatch(_, _, _, _, _)
ApplyBatch(W, seq, d, t, batch) ==
  IF batch = <<>> THEN [words |-> W, seq |-> seq, synced |-> 0, error |-> FALSE]
  ELSE LET r    == MergeItem(W, seq, d, t, Head(batch))
           rest == ApplyBatch(r.words, r.seq, d, t, Tail(batch))
       IN [synced |-> r.counted + rest.synced,
           error |-> r.error \/ rest.error,
           words |-> rest.words, seq |-> rest.seq]

\* the requests of at most MaxWords list elements
Batches == UNION {[1..n -> Mutations] : n \in 1..MaxWords}

\* ------------------------------------------------------------------- state
VARIABLES
  words,         \* rows of the words table
  seq,           \* sqlite_sequence entry of words (AUTOINCREMENT)
  devices,       \* devices table: device_id -> last_sync (NULL: no row)
  sync_log,      \* sync_log table, in insertion order
  db_lock,       \* owner of db_lock, or NoThread
  clock,         \* server clock, one tick per request
  pc,            \* position of each request thread in sync_words
  device_id,     \* per thread: data.get('device_id')
  len_words,     \* per thread: len(words) of the request
  current_time,  \* per thread: timestamp taken at the start of the request
  i,             \* per thread: start index of the current sub-batch
  k,             \* per thread: items of the current sub-batch already visited
  synced_count,  \* per thread
  server_ids,    \* per thread
  word_text,     \* per thread: the local word_text, Unbound until assigned
  snapshot,      \* the committed words table while a transaction is open
  attempt,       \* per thread: get_db_connection attempts made for the open block
  parts,         \* history, per thread: input positions visited, by sub-batch
  reading,       \* per reader: the read endpoint being served, or "idle"
  read_result,   \* per reader: what the last read returned
  response,      \* per thread: the last response returned
  last,          \* history: the last list element visited, its sender and outcome
  assigned,      \* history: every id an insert has ever produced
  chain          \* history: progress of a create -> edit -> edit chain

vars == <<words, seq, devices, sync_log, db_lock, clock, pc, device_id, len_words,
          current_time, i, k, synced_count, server_ids, word_text, snapshot,
          attempt, parts, reading, read_result, response, last, assigned, chain>>

NoResponse == [status |-> "none", synced |-> 0, server_ids |-> <<>>, timestamp |-> 0,
               message |-> ""]
\* return jsonify({"status": "error", "message": str(e)}), 500
Failure(msg) == [status |-> "error", synced |-> 0, server_ids |-> <<>>,
                 timestamp |-> 0, message |-> msg]
\* str(e) of the exceptions the outer handler of sync_words receives
UnboundMessage   == "cannot access local variable 'word_text'"
LockedMessage    == "database is locked"
GeneratorMessage == "generator didn't stop after throw()"
ErrorResponse == Failure("store error")
NoSnapshot == [words |-> {}, seq |-> 0]
NoResult == [endpoint |-> "none", total_words |-> 0, rows |-> {}]

\* faulty variant: the writes of the failed transaction are kept
Rollback_Keep(committed, working) == working

\* except Exception: conn.rollback(); raise - the transaction's writes are
\* undone
Rollback(committed, working) == committed
NoMutation == [word |-> <<" ">>, server_id |-> NULL, original_id |-> NULL,
               is_deleted |-> FALSE, is_edited |-> FALSE, payload |-> 1]
NoItem == [thread |-> NoThread, device_id |-> "D1", m |-> NoMutation,
           counted |-> 0, ids |-> <<>>, error |-> FALSE, repeat |-> FALSE]
NoChain == [stage |-> 0, device_id |-> "D1", word |-> <<>>, first |-> NULL,
            known |-> {}]

IsPlainCreate(m) == ~m.is_deleted /\ ~m.is_edited /\ m.original_id = NULL
IsEdit(m) == ~m.is_deleted /\ m.is_edited

\* The chain a client drives for one word: a plain create that makes the first
\* row, then edits that name no original_id or an id the server returned for
\* this word. Any other list element ends the chain.
ChainStep(W, d, m, r) ==
  LET w == strip(m.word)
  IN IF IsPlainCreate(m) /\ w # <<>> /\ ConflictRows(W, w, d) = {} /\ r.ids # <<>>
     THEN [stage |-> 1, device_id |-> d, word |-> w, first |-> r.ids[1],
           known |-> {r.ids[1]}]
     ELSE IF /\ chain.stage \in {1, 2}
             /\ IsEdit(m) /\ w = chain.word /\ d = chain.device_id
             /\ m.original_id \in {NULL} \cup chain.known
          THEN [chain EXCEPT !.stage = @ + 1,
                             !.known = @ \cup {r.ids[j] : j \in 1..Len(r.ids)}]
          ELSE NoChain

Init ==
  /\ words = {}
  /\ seq = 0
  /\ devices = [d \in Devices |-> NULL]
  /\ sync_log = <<>>
  /\ db_lock = NoThread
  /\ clock = 0
  /\ pc = [t \in Threads |-> "idle"]
  /\ device_id = [t \in Threads |-> "D1"]
  /\ len_words = [t \in Threads |-> 0]
  /\ current_time = [t \in Threads |-> 0]
  /\ i = [t \in Threads |-> 0]
  /\ k = [t \in Threads |-> 0]
  /\ synced_count = [t \in Threads |-> 0]
  /\ server_ids = [t \in Threads |-> <<>>]
  /\ word_text = [t \in Threads |-> Unbound]
  /\ snapshot = NoSnapshot
  /\ attempt = [t \in Threads |-> 0]
  /\ parts = [t \in Threads |-> <<>>]
  /\ reading = [r \in Readers |-> "idle"]
  /\ read_result = [r \in Readers |-> NoResult]
  /\ response = [t \in Threads |-> NoResponse]
  /\ last = NoItem
  /\ assigned = {}
  /\ chain = NoChain

\* sync_words up to the batch loop: a request of device d carrying n
\* mutations, while fewer than limit requests have been started
StartRequestUpTo(t, d, n, limit) ==
  /\ pc[t] = "idle"
  /\ clock < limit
  /\ clock' = clock + 1
  /\ device_id' = [device_id EXCEPT ![t] = d]
  /\ len_words' = [len_words EXCEPT ![t] = n]
  /\ current_time' = [current_time EXCEPT ![t] = clock + 1]
  /\ synced_count' = [synced_count EXCEPT ![t] = 0]
  /\ server_ids' = [server_ids EXCEPT ![t] = <<>>]
  /\ i' = [i EXCEPT ![t] = 0]
  /\ k' = [k EXCEPT ![t] = 0]
  /\ word_text' = [word_text EXCEPT ![t] = Unbound]
  /\ parts' = [parts EXCEPT ![t] = <<>>]
  /\ attempt' = [attempt EXCEPT ![t] = 0]
  /\ pc' = [pc EXCEPT ![t] = IF n > 0 THEN "batch" ELSE "finalize"]
  /\ UNCHANGED <<words, seq, devices, sync_log, db_lock, snapshot, reading,
                 read_result, response, last, assigned, chain>>

StartRequest(t, d, n) == StartRequestUpTo(t, d, n, MaxRequests)

\* faulty variant: a gate that never makes a thread wait
Acquirable_Always(lock, t) == TRUE

\* with db_lock: threading.RLock is taken when it is free or already held by
\* the calling thread; otherwise the thread waits
Acquirable(lock, t) == lock = NoThread \/ lock = t

\* with get_db_cursor() as (c, conn): the gate is taken for one sub-batch and
\* the connection is opened by get_db_connection after f attempts that the
\* store answered with "database is locked"
BeginBatchAfter(t, f) ==
  /\ pc[t] = "batch"
  /\ Acquirable(db_lock, t)
  /\ f < retries
  /\ db_lock' = t
  /\ attempt' = [attempt EXCEPT ![t] = f + 1]
  /\ snapshot' = [words |-> words, seq |-> seq]
  /\ k' = [k EXCEPT ![t] = 0]
  /\ parts' = [parts EXCEPT ![t] = Append(@, <<>>)]
  /\ pc' = [pc EXCEPT ![t] = "items"]
  /\ UNCHANGED <<words, seq, devices, sync_log, clock, device_id, len_words,
                 current_time, i, synced_count, server_ids, word_text, reading,
                 read_result, response, last, assigned, chain>>

\* the sub-batch is entered with the first connection attempt succeeding
BeginBatch(t) == BeginBatchAfter(t, 0)

\* faulty variant: every sub-batch taken to be a full one
BatchLen_Full(t) == batch_size

\* len(batch) for batch = words[i:i+batch_size]
BatchLen(t) == IF len_words[t] - i[t] < batch_size THEN len_words[t] - i[t] ELSE batch_size

\* faulty variant: the sub-batch walked from its last element to its first
ItemIndex_Reversed(t) == i[t] + BatchLen(t) - k[t]

\* for word in batch: the input position of the element visited next
ItemIndex(t) == i[t] + k[t] + 1

\* the history of visited positions with position n added to the open sub-batch
Visit(t, n) == [parts EXCEPT ![t] = [@ EXCEPT ![Len(@)] = Append(@, n)]]

\* the per-item handler itself raises: print(f"... {word_text} ...") reads
\* word_text, which is unbound while no list element of the request has got
\* past its assignment
HandlerRaises(t, m) == Raises(m) /\ word_text[t] = Unbound

\* one pass of "for word in batch" with list element m and outcome r of the
\* try body and the per-item handler
VisitItem(t, m, r) ==
  /\ pc[t] = "items"
  /\ db_lock = t
  /\ k[t] < BatchLen(t)
  /\ word_text' = [word_text EXCEPT ![t] = IF Raises(m) THEN @ ELSE strip(m.word)]
  /\ words' = r.words
  /\ seq' = r.seq
  /\ synced_count' = [synced_count EXCEPT ![t] = @ + r.counted]
  /\ server_ids' = [server_ids EXCEPT ![t] = @ \o r.ids]
  /\ last' = [thread |-> t, device_id |-> device_id[t], m |-> m,
              counted |-> r.counted, ids |-> r.ids, error |-> r.error,
              repeat |-> /\ last.thread # NoThread
                         /\ last.device_id = device_id[t]
                         /\ last.m = m]
  /\ assigned' = assigned \cup (Ids(r.words) \ Ids(words))
  /\ chain' = ChainStep(words, device_id[t], m, r)
  /\ k' = [k EXCEPT ![t] = @ + 1]
  /\ parts' = Visit(t, ItemIndex(t))
  /\ UNCHANGED <<devices, sync_log, db_lock, clock, pc, device_id, len_words,
                 current_time, i, snapshot, attempt, reading, read_result, response>>

\* one pass of "for word in batch" with list element m, whose exception, if
\* any, the per-item handler absorbs
ApplyItem(t, m) ==
  /\ ~HandlerRaises(t, m)
  /\ VisitItem(t, m, MergeItem(words, seq, device_id[t], current_time[t], m))

\* one pass of "for word in batch" whose exception leaves the per-item
\* handler: get_db_cursor rolls the sub-batch back and releases the gate, the
\* outer handler of sync_words answers 500, finalization is not reached
AbortItem(t, m) ==
  /\ pc[t] = "items"
  /\ db_lock = t
  /\ k[t] < BatchLen(t)
  /\ HandlerRaises(t, m)
  /\ LET r == Rollback(snapshot, [words |-> words, seq |-> seq])
     IN words' = r.words /\ seq' = r.seq
  /\ snapshot' = NoSnapshot
  /\ db_lock' = NoThread
  /\ response' = [response EXCEPT ![t] = Failure(UnboundMessage)]
  /\ last' = [thread |-> t, device_id |-> device_id[t], m |-> m,
              counted |-> 0, ids |-> <<>>, error |-> TRUE, repeat |-> FALSE]
  /\ chain' = NoChain
  /\ pc' = [pc EXCEPT ![t] = "idle"]
  /\ device_id' = [device_id EXCEPT ![t] = "D1"]
  /\ len_words' = [len_words EXCEPT ![t] = 0]
  /\ current_time' = [current_time EXCEPT ![t] = 0]
  /\ i' = [i EXCEPT ![t] = 0]
  /\ k' = [k EXCEPT ![t] = 0]
  /\ synced_count' = [synced_count EXCEPT ![t] = 0]
  /\ server_ids' = [server_ids EXCEPT ![t] = <<>>]
  /\ word_text' = [word_text EXCEPT ![t] = Unbound]
  /\ attempt' = [attempt EXCEPT ![t] = 0]
  /\ parts' = [parts EXCEPT ![t] = <<>>]
  /\ UNCHANGED <<devices, sync_log, clock, reading, read_result, assigned>>

\* end of the with block: conn.commit(), the gate is released
EndBatch(t) ==
  /\ pc[t] = "items"
  /\ db_lock = t
  /\ k[t] = BatchLen(t)
  /\ db_lock' = NoThread
  /\ snapshot' = NoSnapshot
  /\ attempt' = [attempt EXCEPT ![t] = 0]
  /\ i' = [i EXCEPT ![t] = @ + batch_size]
  /\ pc' = [pc EXCEPT ![t] = IF i[t] + batch_size < len_words[t] THEN "batch"
                                                                 ELSE "finalize"]
  /\ UNCHANGED <<words, seq, devices, sync_log, clock, device_id, len_words,
                 current_time, k, synced_count, server_ids, word_text, parts,
                 reading, read_result, response, last, assigned, chain>>

\* a SQL statement of list element m is answered "database is locked": the
\* OperationalError is raised inside the try body, after word_text has been
\* assigned, and the per-item handler absorbs it like any other exception
ItemLocked(t, m) ==
  /\ ~Raises(m)
  /\ strip(m.word) # <<>>
  /\ VisitItem(t, m, Result(words, seq, 0, <<>>, TRUE))

\* faulty variant: the outer handler is reached with the gate still held
FailRequest_KeepGate(t, msg, a) ==
  /\ response' = [response EXCEPT ![t] = Failure(msg)]
  /\ attempt' = [attempt EXCEPT ![t] = a]
  /\ db_lock' = db_lock
  /\ snapshot' = NoSnapshot
  /\ pc' = [pc EXCEPT ![t] = "idle"]
  /\ device_id' = [device_id EXCEPT ![t] = "D1"]
  /\ len_words' = [len_words EXCEPT ![t] = 0]
  /\ current_time' = [current_time EXCEPT ![t] = 0]
  /\ i' = [i EXCEPT ![t] = 0]
  /\ k' = [k EXCEPT ![t] = 0]
  /\ synced_count' = [synced_count EXCEPT ![t] = 0]
  /\ server_ids' = [server_ids EXCEPT ![t] = <<>>]
  /\ word_text' = [word_text EXCEPT ![t] = Unbound]
  /\ parts' = [parts EXCEPT ![t] = <<>>]
  /\ UNCHANGED <<devices, sync_log, clock, reading, read_result, last, assigned,
                 chain>>

\* the thread leaves sync_words through the outer handler with message msg,
\* after a attempts of get_db_connection
FailRequest(t, msg, a) ==
  /\ response' = [response EXCEPT ![t] = Failure(msg)]
  /\ attempt' = [attempt EXCEPT ![t] = a]
  /\ db_lock' = NoThread
  /\ snapshot' = NoSnapshot
  /\ pc' = [pc EXCEPT ![t] = "idle"]
  /\ device_id' = [device_id EXCEPT ![t] = "D1"]
  /\ len_words' = [len_words EXCEPT ![t] = 0]
  /\ current_time' = [current_time EXCEPT ![t] = 0]
  /\ i' = [i EXCEPT ![t] = 0]
  /\ k' = [k EXCEPT ![t] = 0]
  /\ synced_count' = [synced_count EXCEPT ![t] = 0]
  /\ server_ids' = [server_ids EXCEPT ![t] = <<>>]
  /\ word_text' = [word_text EXCEPT ![t] = Unbound]
  /\ parts' = [parts EXCEPT ![t] = <<>>]
  /\ UNCHANGED <<devices, sync_log, clock, reading, read_result, last, assigned,
                 chain>>

\* get_db_connection while entering a with get_db_cursor() block: every one
\* of the retries attempts is answered "database is locked", the last one
\* re-raises the OperationalError
OpenFails(t) ==
  /\ pc[t] \in {"batch", "finalize"}
  /\ Acquirable(db_lock, t)
  /\ UNCHANGED <<words, seq>>
  /\ FailRequest(t, LockedMessage, retries)

\* faulty variant: after a locked commit with attempts left, the retry loop
\* opens a connection and the sub-batch is entered once more
CommitFails_Rerun(t, j) ==
  /\ pc[t] = "items"
  /\ db_lock = t
  /\ k[t] = BatchLen(t)
  /\ attempt[t] + j <= retries
  /\ LET r == Rollback(snapshot, [words |-> words, seq |-> seq])
     IN words' = r.words /\ seq' = r.seq
  /\ IF attempt[t] + j = retries
     THEN FailRequest(t, LockedMessage, retries)
     ELSE /\ pc' = [pc EXCEPT ![t] = "batch"]
          /\ db_lock' = NoThread
          /\ snapshot' = NoSnapshot
          /\ attempt' = [attempt EXCEPT ![t] = 0]
          /\ UNCHANGED <<devices, sync_log, clock, device_id, len_words,
                         current_time, i, k, synced_count, server_ids, word_text,
                         parts, reading, read_result, response, last, assigned,
                         chain>>

\* conn.commit() at the end of a sub-batch is answered "database is locked":
\* get_db_cursor rolls back and re-raises into get_db_connection, whose retry
\* loop, when attempts are left, opens a connection again: after j more locked
\* attempts it either runs out of attempts and re-raises the OperationalError,
\* or it succeeds and yields a second time, which contextlib answers with a
\* RuntimeError
CommitFails(t, j) ==
  /\ pc[t] = "items"
  /\ db_lock = t
  /\ k[t] = BatchLen(t)
  /\ attempt[t] + j <= retries
  /\ LET r == Rollback(snapshot, [words |-> words, seq |-> seq])
     IN words' = r.words /\ seq' = r.seq
  /\ IF attempt[t] + j = retries
     THEN FailRequest(t, LockedMessage, retries)
     ELSE FailRequest(t, GeneratorMessage, attempt[t] + j + 1)

\* faulty variant: the final transaction without the devices upsert
FinalWrites_NoDevice(devs, log, d, t, n) ==
  [devices  |-> devs,
   sync_log |-> Append(log, [device_id |-> d, action |-> "sync", details |-> n])]

\* the two writes of the final transaction: INSERT OR REPLACE INTO devices
\* and INSERT INTO sync_log, for device d, request time t and n synced items
FinalWrites(devs, log, d, t, n) ==
  [devices  |-> [devs EXCEPT ![d] = t],
   sync_log |-> Append(log, [device_id |-> d, action |-> "sync", details |-> n])]

\* final device update, sync log entry and the response
Finalize(t) ==
  /\ pc[t] = "finalize"
  /\ Acquirable(db_lock, t)
  /\ LET w == FinalWrites(devices, sync_log, device_id[t], current_time[t],
                          synced_count[t])
     IN devices' = w.devices /\ sync_log' = w.sync_log
  /\ response' = [response EXCEPT ![t] =
                    [status |-> "success", synced |-> synced_count[t],
                     server_ids |-> server_ids[t], timestamp |-> current_time[t],
                     message |-> "synced"]]
  /\ pc' = [pc EXCEPT ![t] = "idle"]
  /\ device_id' = [device_id EXCEPT ![t] = "D1"]
  /\ len_words' = [len_words EXCEPT ![t] = 0]
  /\ current_time' = [current_time EXCEPT ![t] = 0]
  /\ i' = [i EXCEPT ![t] = 0]
  /\ k' = [k EXCEPT ![t] = 0]
  /\ synced_count' = [synced_count EXCEPT ![t] = 0]
  /\ server_ids' = [server_ids EXCEPT ![t] = <<>>]
  /\ word_text' = [word_text EXCEPT ![t] = Unbound]
  /\ parts' = [parts EXCEPT ![t] = <<>>]
  /\ UNCHANGED <<words, seq, db_lock, clock, snapshot, attempt, reading, read_result,
                 last, assigned, chain>>

\* the final transaction fails (the store raises in connect, execute or
\* commit): get_db_cursor rolls back whatever it wrote, the outer handler of
\* sync_words answers 500
FinalizeFail(t) ==
  /\ pc[t] = "finalize"
  /\ Acquirable(db_lock, t)
  /\ LET w == FinalWrites(devices, sync_log, device_id[t], current_time[t],
                          synced_count[t])
         r == Rollback([devices |-> devices, sync_log |-> sync_log], w)
     IN devices' = r.devices /\ sync_log' = r.sync_log
  /\ response' = [response EXCEPT ![t] = ErrorResponse]
  /\ pc' = [pc EXCEPT ![t] = "idle"]
  /\ device_id' = [device_id EXCEPT ![t] = "D1"]
  /\ len_words' = [len_words EXCEPT ![t] = 0]
  /\ current_time' = [current_time EXCEPT ![t] = 0]
  /\ i' = [i EXCEPT ![t] = 0]
  /\ k' = [k EXCEPT ![t] = 0]
  /\ synced_count' = [synced_count EXCEPT ![t] = 0]
  /\ server_ids' = [server_ids EXCEPT ![t] = <<>>]
  /\ word_text' = [word_text EXCEPT ![t] = Unbound]
  /\ parts' = [parts EXCEPT ![t] = <<>>]
  /\ UNCHANGED <<words, seq, db_lock, clock, snapshot, attempt, reading, read_result,
                 last, assigned, chain>>

\* what a new connection reads of the words table: the committed rows, not
\* the uncommitted writes of a sub-batch in progress (journal_mode=WAL)
Committed ==
  IF \E t \in Threads : pc[t] = "items" THEN snapshot.words ELSE words

\* a GET /api/status or GET /api/download request arrives
StartRead(r, e) ==
  /\ reading[r] = "idle"
  /\ reading' = [reading EXCEPT ![r] = e]
  /\ read_result' = [read_result EXCEPT ![r] = NoResult]
  /\ UNCHANGED <<words, seq, devices, sync_log, db_lock, clock, pc, device_id,
                 len_words, current_time, i, k, synced_count, server_ids, word_text,
                 snapshot, attempt, parts, response, last, assigned, chain>>

\* get_status: with get_db_cursor() - the gate is taken, the counts are read,
\* the gate is released
GetStatus(r) ==
  /\ reading[r] = "status"
  /\ Acquirable(db_lock, r)
  /\ read_result' = [read_result EXCEPT ![r] =
       [endpoint |-> "status",
        total_words |-> Cardinality({x \in Committed : x.is_deleted = 0}),
        rows |-> {}]]
  /\ reading' = [reading EXCEPT ![r] = "idle"]
  /\ UNCHANGED <<words, seq, devices, sync_log, db_lock, clock, pc, device_id,
                 len_words, current_time, i, k, synced_count, server_ids, word_text,
                 snapshot, attempt, parts, response, last, assigned, chain>>

\* download_all_words: with get_db_connection() - no gate; the active rows
\* are read on a connection of its own
Download(r) ==
  /\ reading[r] = "download"
  /\ read_result' = [read_result EXCEPT ![r] =
       [endpoint |-> "download", total_words |-> 0,
        rows |-> {x.id : x \in {y \in Committed : y.is_deleted = 0}}]]
  /\ reading' = [reading EXCEPT ![r] = "idle"]
  /\ UNCHANGED <<words, seq, devices, sync_log, db_lock, clock, pc, device_id,
                 len_words, current_time, i, k, synced_count, server_ids, word_text,
                 snapshot, attempt, parts, response, last, assigned, chain>>

\* one step of the reader thread r
Read(r) ==
  \/ \E e \in {"status", "download"} : StartRead(r, e)
  \/ GetStatus(r)
  \/ Download(r)

\* one step of the request thread t, its list elements drawn from I
ServeItems(t, I) ==
  \/ \E d \in Devices, n \in 0..MaxWords : StartRequest(t, d, n)
  \/ BeginBatch(t)
  \/ \E m \in I : ApplyItem(t, m)
  \/ \E m \in I : AbortItem(t, m)
  \/ EndBatch(t)
  \/ Finalize(t)
  \/ FinalizeFail(t)

Serve(t) == ServeItems(t, Items)

\* Requests served one after another. Every write to words happens inside a
\* sub-batch, sub-batches are serialised by db_lock, and a request of at most
\* batch_size mutations is one sub-batch, so this specification reaches every
\* content of the words table that concurrent requests reach.
Next == Serve("t1")

Spec == Init /\ [][Next]_vars

\* the list elements about one word without ids: a create, an edit, a delete
\* and a raising element
GateItems ==
  {m \in Items : /\ m.word \in {<<"a">>, JsonNull}
                 /\ m.server_id = NULL /\ m.original_id = NULL}

\* One request thread and a store that reports lock contention: while a
\* connection is opened, on a statement of a list element, at commit.
StorageFault(t, I) ==
  \/ \E f \in 1..(retries - 1) : BeginBatchAfter(t, f)
  \/ OpenFails(t)
  \/ \E m \in I : ItemLocked(t, m)
  \/ \E j \in 0..retries : CommitFails(t, j)

NextStorage == ServeItems("t1", GateItems) \/ StorageFault("t1", GateItems)

SpecStorage == Init /\ [][NextStorage]_vars

\* One request thread serving long requests made of one well-formed element,
\* a plain create of "a", so that a request spans several sub-batches.
PartItems == {m \in Mutations : m.word = <<"a">> /\ IsPlainCreate(m)}

NextPartition ==
  \/ \E d \in Devices, n \in 0..MaxLongWords : StartRequest("t1", d, n)
  \/ BeginBatch("t1")
  \/ \E m \in PartItems : ApplyItem("t1", m)
  \/ EndBatch("t1")
  \/ Finalize("t1")

SpecPartition == Init /\ [][NextPartition]_vars

\* Sync requests served by all threads at once, next to the read endpoints.
NextConcurrent ==
  \/ \E t \in Threads : ServeItems(t, GateItems)
  \/ \E r \in Readers : Read(r)

SpecConcurrent == Init /\ [][NextConcurrent]_vars

\* One request thread and list elements about one word with every combination
\* of the fields sync_words reads: deletes that also carry is_edited and
\* original_id, creates that carry a server_id, and two payload contents.
AnyItems ==
  [word : {<<"a">>}, server_id : Refs, original_id : Refs,
   is_deleted : BOOLEAN, is_edited : BOOLEAN, payload : 1..MaxAnyPayload]
  \cup {BadItem}

NextAny == ServeItems("t1", AnyItems)

SpecAny == Init /\ [][NextAny]_vars

\* One request thread serving requests that span two sub-batches, on a store
\* that reports lock contention: a later sub-batch can fail after an earlier
\* one of the same request has been committed.
NextTransaction ==
  \/ \E d \in Devices, n \in 0..MaxTxnWords :
       StartRequestUpTo("t1", d, n, MaxTxnRequests)
  \/ BeginBatch("t1")
  \/ \E m \in GateItems : ApplyItem("t1", m)
  \/ \E m \in GateItems : AbortItem("t1", m)
  \/ EndBatch("t1")
  \/ Finalize("t1")
  \/ FinalizeFail("t1")
  \/ StorageFault("t1", GateItems)

SpecTransaction == Init /\ [][NextTransaction]_vars

\* the list elements of SpecLive: a plain create and a raising element
LiveItems == {m \in GateItems : Raises(m) \/ IsPlainCreate(m)}

\* the steps thread t takes by itself once its request has arrived: waiting
\* for the gate and entering a sub-batch, merging the next list element,
\* committing, finalizing
Progress(t) ==
  \/ BeginBatch(t)
  \/ \E m \in LiveItems : ApplyItem(t, m)
  \/ \E m \in LiveItems : AbortItem(t, m)
  \/ EndBatch(t)
  \/ Finalize(t)

\* Sync requests of at most MaxLiveWords elements served by all threads at
\* once on a store that reports lock contention. A thread that can go on does
\* go on: the body of a sub-batch terminates, and a thread blocked on db_lock
\* is woken when the gate is free.
NextLive ==
  \E t \in Threads :
    \/ \E d \in Devices, n \in 0..MaxLiveWords :
         StartRequestUpTo(t, d, n, MaxRequests)
    \/ Progress(t)
    \/ FinalizeFail(t)
    \/ StorageFault(t, LiveItems)

SpecLive ==
  Init /\ [][NextLive]_vars /\ \A t \in Threads : WF_vars(Progress(t))

\* the list elements of the short requests of SpecSerial: a create of one
\* word, its delete by word and a delete by server_id
SerialItems ==
  {m \in Mutations : /\ m.word = <<"a">> /\ ~m.is_edited
                     /\ m.original_id = NULL /\ m.server_id \in {NULL, 1}}

\* Two request threads served at once: t1 serves a request that spans two
\* sub-batches, t2 serves requests of one sub-batch, so that a sub-batch of
\* t2 can run between the two sub-batches of t1.
NextSerial ==
  \/ \E d \in Devices : StartRequestUpTo("t1", d, MaxSerialWords, MaxRequests)
  \/ \E d \in Devices, n \in 1..MaxWords : StartRequestUpTo("t2", d, n, MaxRequests)
  \/ \E t \in Threads : BeginBatch(t)
  \/ \E m \in PartItems : ApplyItem("t1", m)
  \/ \E m \in SerialItems : ApplyItem("t2", m)
  \/ \E t \in Threads : EndBatch(t)
  \/ \E t \in Threads : Finalize(t)

SpecSerial == Init /\ [][NextSerial]_vars

\* a step that visits one list element
IsApply == \E t \in Threads : k'[t] = k[t] + 1

\* ------------------------------------------------------------------ claims
Sender == last'.device_id
Sent == last'.m

\* C1: uniqueness - in every reachable state there is at most one row with
\* is_deleted = 0 for each (word, device_id) pair.
C1_Uniqueness ==
  \A r1 \in words, r2 \in words :
    (/\ r1.word = r2.word /\ r1.device_id = r2.device_id
     /\ r1.is_deleted = 0 /\ r2.is_deleted = 0) => r1 = r2

\* an edit has been applied to a word the device already has a row for
C1_Witness ==
  /\ last.thread # NoThread /\ IsEdit(last.m) /\ last.error
  /\ \E r \in words : /\ r.word = strip(last.m.word)
                      /\ r.device_id = last.device_id
                      /\ r.is_deleted = 0

\* C2 (as claimed): every row with a non-null original_id points to the id of
\* a lineage root, a row whose own original_id is null.
C2_RootPointer ==
  \A r \in words :
    r.original_id # NULL =>
      \E q \in words : q.id = r.original_id /\ q.original_id = NULL

C4_TombstonesPermanent ==
  [][\A r \in words : r.is_deleted = 1 => r \in words']_vars

\* a create has been sent for a word whose row is a tombstone
C4_Witness ==
  /\ last.thread # NoThread /\ ~last.m.is_deleted /\ last.error
  /\ \E r \in words : /\ r.word = strip(last.m.word)
                      /\ r.device_id = last.device_id
                      /\ r.is_deleted = 1
                      /\ r.id # last.m.original_id

\* C5: deletion is logical - no step removes a row: every id of the table is
\* still in the table after the step.
C5_NoPhysicalDelete ==
  [][Ids(words) \subseteq Ids(words')]_vars

\* a delete has tombstoned a row and the row is still in the table
C5_Witness ==
  /\ last.thread # NoThread /\ last.m.is_deleted /\ last.counted = 1
  /\ \E r \in words :
       /\ r.is_deleted = 1
       /\ \/ r.id = last.m.server_id
          \/ /\ last.m.server_id = NULL
             /\ r.word = strip(last.m.word) /\ r.device_id = last.device_id

\* C6: ids are never reused - the id of a row that a step adds was never
\* assigned before, and no two rows share an id.
C6_IdsNeverReused ==
  [][/\ \A r \in words' \ words : r.id \notin Ids(words) => r.id \notin assigned
     /\ \A r1 \in words', r2 \in words' : r1.id = r2.id => r1 = r2]_vars

\* an insert has produced an id while a tombstoned row with a smaller id exists
C6_Witness ==
  /\ last.thread # NoThread /\ last.ids = <<seq>> /\ ~last.error
  /\ \E r \in words : r.is_deleted = 1 /\ r.id < seq
  /\ \E r \in words : r.id = seq /\ r.is_deleted = 0

\* C7: idempotent delete - a delete that repeats the list element applied just
\* before it (same device, same fields) and a delete of a word the device has
\* no row for leave the table unchanged, raise no error and are not counted.
C7_IdempotentDelete ==
  [][(/\ IsApply /\ Sent.is_deleted
      /\ \/ last'.repeat
         \/ /\ Sent.server_id = NULL
            /\ ConflictRows(words, strip(Sent.word), Sender) = {})
     => /\ words' = words
        /\ last'.counted = 0
        /\ ~last'.error
        /\ synced_count' = synced_count]_vars
\* the delete just applied repeats the one before it, which had found its row
C7_Witness ==
  /\ last.thread # NoThread /\ last.m.is_deleted /\ last.repeat /\ last.counted = 0
  /\ \E r \in words :
       /\ r.is_deleted = 1
       /\ \/ r.id = last.m.server_id
          \/ /\ last.m.server_id = NULL
             /\ r.word = strip(last.m.word) /\ r.device_id = last.device_id

IsRoot(W, id) == \E r \in W : r.id = id /\ r.original_id = NULL

\* C8: root delete cascades - a delete with server_id = R, R a lineage root,
\* leaves R and every row whose original_id = R tombstoned after that one step.
C8_RootDeleteCascades ==
  [][(/\ IsApply /\ Sent.is_deleted /\ Sent.server_id # NULL
      /\ strip(Sent.word) # <<>>
      /\ IsRoot(words, Sent.server_id))
     => \A r \in words :
          (r.id = Sent.server_id \/ r.original_id = Sent.server_id)
            => \E q \in words' : q.id = r.id /\ q.is_deleted = 1]_vars

\* a delete by server_id = R has been counted, and R and two edited
\* descendants E1, E2 of R are all tombstoned
C8_Witness ==
  /\ last.thread # NoThread /\ last.m.is_deleted /\ last.counted = 1
  /\ \E R \in words, E1 \in words, E2 \in words :
       /\ R.id = last.m.server_id /\ R.original_id = NULL
       /\ E1.id # E2.id
       /\ E1.original_id = R.id /\ E2.original_id = R.id
       /\ E1.is_edited = 1 /\ E2.is_edited = 1
       /\ R.is_deleted = 1 /\ E1.is_deleted = 1 /\ E2.is_deleted = 1

\* C9 (as claimed): no list element sent by a device changes a row of another
\* device.
C9_NoCrossDeviceChange ==
  [][IsApply => \A r \in words : r.device_id # Sender => r \in words']_vars

\* C9 (amended): a list element changes a row of another device only when it
\* is a delete carrying a server_id that is the row's id or original_id, or an
\* edit carrying the row's id as original_id; the change is the tombstoning.
C9_CrossDeviceOnlyById ==
  [][IsApply =>
       \A r \in words :
         (r.device_id # Sender /\ r \notin words') =>
           /\ strip(Sent.word) # <<>>
           /\ \/ /\ Sent.is_deleted /\ Sent.server_id # NULL
                 /\ (r.id = Sent.server_id \/ r.original_id = Sent.server_id)
              \/ /\ IsEdit(Sent) /\ Sent.original_id # NULL
                 /\ r.id = Sent.original_id
           /\ r.is_deleted = 0
           /\ \E q \in words' :
                /\ q.id = r.id /\ q.is_deleted = 1
                /\ q.word = r.word /\ q.device_id = r.device_id
                /\ q.payload = r.payload /\ q.original_id = r.original_id]_vars

\* a device has deleted a word by its text while another device holds an
\* active row for the same word, which is still active
C9_Witness ==
  /\ last.thread # NoThread /\ last.m.is_deleted /\ last.m.server_id = NULL
  /\ last.counted = 1
  /\ \E r \in words : /\ r.word = strip(last.m.word)
                      /\ r.device_id # last.device_id
                      /\ r.is_deleted = 0

\* C10 (as claimed): an edit with is_edited = true and no original_id, applied
\* when the device's active row for the word is the one a create made, adds a
\* row whose original_id is the create row's id and tombstones the create row.
C10_FirstEdit ==
  [][(/\ IsApply /\ IsEdit(Sent) /\ Sent.original_id = NULL)
     => \A h \in ActiveRows(words, strip(Sent.word), Sender) :
          (h.is_edited = 0 /\ h.original_id = NULL) =>
            /\ \E q \in words' : q.id \notin Ids(words) /\ q.original_id = h.id
            /\ \E q \in words' : q.id = h.id /\ q.is_deleted = 1]_vars

\* C11: re-sync dedup - a plain create for a word the device has no row for
\* adds one row and is counted; the same plain create sent again adds no row,
\* is counted again, and rewrites the existing head in place: same id, the
\* sent payload, last_synced of the second request.
C11_ResyncDedup ==
  [][(IsApply /\ IsPlainCreate(Sent) /\ ~Raises(Sent) /\ strip(Sent.word) # <<>>) =>
       LET w == strip(Sent.word)
       IN /\ ConflictRows(words, w, Sender) = {} =>
               /\ last'.counted = 1
               /\ Cardinality(words') = Cardinality(words) + 1
          /\ (last'.repeat /\ last.counted = 1) =>
               /\ last'.counted = 1
               /\ Ids(words') = Ids(words)
               /\ Cardinality(ConflictRows(words', w, Sender)) = 1
               /\ \E h \in ActiveRows(words, w, Sender) :
                    /\ last'.ids = <<h.id>>
                    /\ \E t \in Threads :
                         /\ k'[t] = k[t] + 1
                         /\ [h EXCEPT !.payload = Sent.payload,
                                      !.last_synced = current_time[t],
                                      !.is_edited = 0] \in words']_vars

\* the same plain create has been applied in two requests, the second time to
\* the row the first one made
C11_Witness ==
  /\ last.thread # NoThread /\ IsPlainCreate(last.m) /\ last.repeat
  /\ last.counted = 1
  /\ \E r \in words : /\ r.id = last.ids[1]
                      /\ r.word = strip(last.m.word)
                      /\ r.device_id = last.device_id
                      /\ r.last_synced = 2
                      /\ r.is_deleted = 0
  /\ Cardinality(words) = 1

\* what a reader sees of the active rows: id, word, owner, payload, original_id
ActiveView(W) ==
  {[id |-> r.id, word |-> r.word, device_id |-> r.device_id,
    payload |-> r.payload, original_id |-> r.original_id] :
     r \in {x \in W : x.is_deleted = 0}}

\* C12 (as claimed): idempotent batch retry - between requests, for every
\* device and every batch that the store applies without an item error,
\* applying the same batch a second time leaves the active rows, their
\* payloads and original_id pointers as the first application left them and
\* adds no row.
C12_BatchRetryIdempotent ==
  db_lock = NoThread =>
    \A d \in Devices, b \in Batches :
      LET r1 == ApplyBatch(words, seq, d, clock + 1, b)
          r2 == ApplyBatch(r1.words, r1.seq, d, clock + 2, b)
      IN ~r1.error =>
           /\ ActiveView(r2.words) = ActiveView(r1.words)
           /\ Ids(r2.words) = Ids(r1.words)

\* thread t visits one list element in this step, whatever the outcome
IsVisit(t) ==
  /\ pc[t] = "items" /\ k[t] < BatchLen(t)
  /\ (k'[t] = k[t] + 1 \/ pc'[t] = "idle")

\* C13 (as claimed): per-item failure isolation - when a list element raises,
\* wherever it sits in the request, the loop goes on to the next element with
\* the sub-batch's earlier writes kept, and the request is not answered with
\* an error.
C13_FailureIsolation ==
  [][\A t \in Threads :
       (IsVisit(t) /\ last'.error) =>
         /\ pc'[t] = "items" /\ k'[t] = k[t] + 1
         /\ db_lock' = t
         /\ response'[t] = response[t]]_vars

\* C14 (as claimed): a request is answered with an error only out of the
\* finalization step, never out of the item loop.
C14_ErrorOnlyFromFinalization ==
  [][\A t \in Threads :
       (pc[t] # "idle" /\ pc'[t] = "idle" /\ response'[t].status = "error")
         => pc[t] = "finalize"]_vars

\* C15: finalization failure - when the final transaction fails the request is
\* answered with an error, the words table is as the sub-batches committed it,
\* and the devices table and the sync log are as they were before the request.
C15_FinalizationFailure ==
  [][\A t \in Threads :
       (pc[t] = "finalize" /\ pc'[t] = "idle" /\ response'[t].status # "success")
         => /\ response'[t].status = "error"
            /\ words' = words /\ seq' = seq
            /\ devices' = devices
            /\ sync_log' = sync_log]_vars

\* a request whose create was merged has been answered with an error: its row
\* is in the table, its device has no record and the log has no entry
C15_Witness ==
  /\ response["t1"].status = "error" /\ pc["t1"] = "idle"
  /\ last.thread = "t1" /\ last.counted = 1 /\ ~last.m.is_deleted
  /\ \E r \in words : r.id = last.ids[1] /\ r.device_id = last.device_id
                                         /\ r.is_deleted = 0
  /\ devices[last.device_id] = NULL
  /\ sync_log = <<>>

\* thread t is inside the transaction section of a sub-batch
InSection(t) == pc[t] = "items"

\* C16: mutual exclusion - at most one sub-batch is inside the transaction
\* section at any moment, and the thread inside it is the one holding db_lock.
C16_MutualExclusion ==
  \A t1 \in Threads, t2 \in Threads :
    InSection(t1) => (db_lock = t1 /\ (InSection(t2) => t1 = t2))

\* one request is in the middle of its sub-batch while another request waits
\* at the gate for its own sub-batch
C16_Witness ==
  \E t1 \in Threads, t2 \in Threads :
    /\ t1 # t2
    /\ InSection(t1) /\ k[t1] = 1 /\ len_words[t1] = 2
    /\ pc[t2] = "batch" /\ len_words[t2] > 0
    /\ db_lock = t1

\* C17 (as claimed): synced counts effective changes - a list element is
\* counted when, and only when, it changed the store: an element that changed
\* a row is counted once; a delete that matched no row, an element with an
\* empty word and an element that failed are not counted.
C17_SyncedCountsChanges ==
  [][\A t \in Threads :
       k'[t] = k[t] + 1 =>
         LET inc == synced_count'[t] - synced_count[t]
         IN /\ inc \in {0, 1}
            /\ words' # words => inc = 1
            /\ (\/ last'.error
                \/ strip(Sent.word) = <<>>
                \/ Sent.is_deleted /\ words' = words) => inc = 0]_vars

\* C18: empty-word skip - a list element whose word is empty after stripping
\* adds no row, changes no row, leaves synced_count and server_ids as they
\* were, raises nothing, and the loop goes on with the next element.
C18_EmptyWordSkipped ==
  [][\A t \in Threads :
       (k'[t] = k[t] + 1 /\ ~Raises(Sent) /\ strip(Sent.word) = <<>>) =>
         /\ words' = words /\ seq' = seq
         /\ synced_count' = synced_count
         /\ server_ids' = server_ids
         /\ ~last'.error
         /\ pc'[t] = "items" /\ db_lock' = t]_vars

\* a whitespace-only element has been visited as the first of two elements of
\* a request, on a table that holds a row, and the second element is pending
C18_Witness ==
  /\ last.thread = "t1" /\ last.m.word = <<" ">> /\ strip(last.m.word) = <<>>
  /\ pc["t1"] = "items" /\ k["t1"] = 1 /\ len_words["t1"] = 2
  /\ synced_count["t1"] = 0 /\ server_ids["t1"] = <<>>
  /\ words # {}

\* thread t returns the success response in this step
Succeeds(t) == pc[t] # "idle" /\ pc'[t] = "idle" /\ response'[t].status = "success"

C20_ServerIds ==
  [][\A t \in Threads :
       /\ k'[t] = k[t] + 1 =>
            IF synced_count'[t] = synced_count[t] + 1 /\ ~Sent.is_deleted
            THEN \E r \in ActiveRows(words', strip(Sent.word), Sender) :
                   /\ server_ids'[t] = Append(server_ids[t], r.id)
                   /\ Cardinality(words') > Cardinality(words) =>
                        r.id \notin Ids(words)
            ELSE server_ids'[t] = server_ids[t]
       /\ Succeeds(t) => response'[t].server_ids = server_ids[t]]_vars

\* a request made of a counted delete and a create has succeeded: two
\* elements synced, one id returned, the id of the row the create made
C20_Witness ==
  /\ response["t1"].status = "success" /\ pc["t1"] = "idle"
  /\ response["t1"].synced = 2
  /\ Len(response["t1"].server_ids) = 1
  /\ last.thread = "t1" /\ ~last.m.is_deleted /\ last.counted = 1
  /\ response["t1"].server_ids = last.ids
  /\ \E r \in words : r.id = last.ids[1] /\ r.id = seq /\ r.is_deleted = 0

\* thread t's request ends in this step with an error that lock contention
\* caused
ContentionFailure(t) ==
  /\ pc[t] # "idle" /\ pc'[t] = "idle"
  /\ response'[t].status = "error"
  /\ response'[t].message \in {LockedMessage, GeneratorMessage}

\* C21 (as claimed): a request fails on lock contention only once the budget
\* of 3 connection attempts is exhausted, and the error returned is the
\* contention error "database is locked", whether the contention was reported
\* while opening the connection or while a sub-batch was executing.
C21_ContentionRetried ==
  [][\A t \in Threads :
       ContentionFailure(t) =>
         /\ attempt'[t] = retries
         /\ response'[t].message = LockedMessage]_vars

\* C22 (as claimed): readers are not blocked by the gate - whenever a status
\* request or a download request is pending, it can complete in the current
\* state, whoever holds db_lock.
C22_ReadersNotBlocked ==
  \A r \in Readers :
    /\ reading[r] = "status" => ENABLED GetStatus(r)
    /\ reading[r] = "download" => ENABLED Download(r)

\* C23 (as claimed): every row's word is stored in title case, and a device
\* has at most one active row among the words that differ only in letter
\* case.
C23_TitleCase ==
  /\ \A r \in words : r.word = title(r.word)
  /\ \A r1 \in words, r2 \in words :
       (/\ r1.device_id = r2.device_id
        /\ title(r1.word) = title(r2.word)
        /\ r1.is_deleted = 0 /\ r2.is_deleted = 0) => r1 = r2

\* the concatenation of the sub-batches of a history of visited positions
RECURSIVE Flatten(_)
Flatten(P) == IF P = <<>> THEN <<>> ELSE Head(P) \o Flatten(Tail(P))

\* the positions 1..n in order
Positions(n) == [j \in 1..n |-> j]

\* C24: partitioning - the sub-batches of a request are consecutive slices of
\* the input list: their concatenation is a prefix of the input positions,
\* each position once; every sub-batch but the last has exactly batch_size
\* (20) elements; when the loop is over none is empty, the last has at most
\* 20, and the concatenation is the whole input list.
C24_Partitioning ==
  \A t \in Threads :
    LET P == parts[t]
        n == Len(P)
    IN /\ Flatten(P) = Positions(Len(Flatten(P)))
       /\ \A j \in 1..(n - 1) : Len(P[j]) = batch_size
       /\ n >= 1 => Len(P[n]) <= batch_size
       /\ (pc[t] = "batch" /\ n >= 1) => Len(P[n]) = batch_size
       /\ pc[t] = "finalize" =>
            /\ Flatten(P) = Positions(len_words[t])
            /\ \A j \in 1..n : P[j] # <<>>

\* a request of 41 elements has been walked in three sub-batches of 20, 20
\* and 1 elements
C24_Witness ==
  /\ pc["t1"] = "finalize" /\ len_words["t1"] = 2 * batch_size + 1
  /\ Len(parts["t1"]) = 3
  /\ Len(parts["t1"][1]) = batch_size /\ Len(parts["t1"][2]) = batch_size
  /\ parts["t1"][3] = <<2 * batch_size + 1>>

\* C25: ordering - every visit takes the input position that follows the last
\* one visited by the request, inside a sub-batch and from one sub-batch to
\* the next; and the element is applied to a table that holds what the
\* request's earlier elements wrote: a plain create that follows the same
\* plain create of the same request finds the row and returns the same id.
C25_Ordering ==
  [][\A t \in Threads :
       k'[t] = k[t] + 1 =>
         LET done == Flatten(parts[t])
         IN /\ Flatten(parts'[t]) = Append(done, Len(done) + 1)
            /\ Len(parts'[t]) = Len(parts[t])
            /\ (/\ done # <<>> /\ last.thread = t /\ last.m = Sent
                /\ IsPlainCreate(Sent) /\ last.counted = 1) =>
                 /\ last'.ids = last.ids
                 /\ Ids(words') = Ids(words)]_vars

\* the first element of the second sub-batch has been visited and has
\* returned the id that the first element of the request had returned
C25_Witness ==
  /\ pc["t1"] = "items" /\ i["t1"] = batch_size /\ k["t1"] = 1
  /\ Len(server_ids["t1"]) = batch_size + 1
  /\ server_ids["t1"][batch_size + 1] = server_ids["t1"][1]
  /\ Flatten(parts["t1"]) = Positions(batch_size + 1)

\* C26 (as claimed): first-edit root computation - an edit that finds an
\* active head which is not an edited version adds a row whose original_id is
\* the head's original_id when that is not null and the head's id otherwise,
\* whatever original_id was sent, and tombstones the head.
C26_FirstEditRoot ==
  [][(IsApply /\ IsEdit(Sent) /\ ~Raises(Sent))
     => \A h \in ActiveRows(words, strip(Sent.word), Sender) :
          h.is_edited = 0 =>
            LET root == IF h.original_id # NULL THEN h.original_id ELSE h.id
            IN /\ \E q \in words' : /\ q.id \notin Ids(words)
                                    /\ q.original_id = root
                                    /\ q.is_deleted = 0
               /\ \E q \in words' : q.id = h.id /\ q.is_deleted = 1]_vars

\* C27 (as claimed): when the device has no active head for the word, a
\* create or an edit adds a row whose original_id is NULL, whatever
\* original_id it carried.
C27_InsertIsRoot ==
  [][(/\ IsApply /\ ~Sent.is_deleted /\ ~Raises(Sent) /\ strip(Sent.word) # <<>>
      /\ ActiveRows(words, strip(Sent.word), Sender) = {})
     => \A q \in words' : q.id \notin Ids(words) => q.original_id = NULL]_vars

\* C28 (as claimed): edit with known prior lineage - after an edit that
\* carries an original_id, the row that had that id, if any, is a tombstone,
\* no error was raised, and the device has exactly one active row for the
\* word, which carries the payload sent.
C28_EditWithLineage ==
  [][(/\ IsApply /\ IsEdit(Sent) /\ Sent.original_id # NULL
      /\ ~Raises(Sent) /\ strip(Sent.word) # <<>>)
     => /\ \A r \in words :
             r.id = Sent.original_id =>
               \E q \in words' : q.id = r.id /\ q.is_deleted = 1
        /\ ~last'.error
        /\ \E h \in words' :
             /\ ActiveRows(words', strip(Sent.word), Sender) = {h}
             /\ h.payload = Sent.payload]_vars

\* the head h of the step's word has been rewritten in place by the step of
\* thread t: no row added or removed, same id and original_id, still active,
\* the payload sent and the request's time
UpdatedInPlace(h, t) ==
  /\ Ids(words') = Ids(words)
  /\ Cardinality(words') = Cardinality(words)
  /\ \E q \in words' :
       /\ q.id = h.id /\ q.original_id = h.original_id
       /\ q.word = h.word /\ q.device_id = h.device_id
       /\ q.is_deleted = 0
       /\ q.payload = Sent.payload
       /\ q.last_synced = current_time[t]

\* C29 (as claimed): when the device's active head for the word is an edited
\* version, or the element is a plain re-sync, the head is updated in place.
C29_UpdateInPlace ==
  [][\A t \in Threads :
       (/\ k'[t] = k[t] + 1 /\ ~Sent.is_deleted /\ ~Raises(Sent))
       => \A h \in ActiveRows(words, strip(Sent.word), Sender) :
            (h.is_edited = 1 \/ ~Sent.is_edited) => UpdatedInPlace(h, t)]_vars

\* C29 (amended): when the device's active head for the word is an edited
\* version, or the element is a plain re-sync, and the element is not an edit
\* that names the head itself as original_id, the head is updated in place.
C29_UpdateInPlaceUnlessNamed ==
  [][\A t \in Threads :
       (/\ k'[t] = k[t] + 1 /\ ~Sent.is_deleted /\ ~Raises(Sent))
       => \A h \in ActiveRows(words, strip(Sent.word), Sender) :
            (/\ h.is_edited = 1 \/ ~Sent.is_edited
             /\ ~(Sent.is_edited /\ Sent.original_id = h.id))
            => UpdatedInPlace(h, t)]_vars

\* an edit has been applied in a second request to a head that already was an
\* edited version with a lineage pointer, and the head is the only row
C29_Witness ==
  /\ last.thread # NoThread /\ IsEdit(last.m) /\ last.counted = 1
  /\ \E r \in words : /\ last.ids = <<r.id>>
                      /\ r.is_edited = 1 /\ r.is_deleted = 0
                      /\ r.original_id # NULL
                      /\ r.original_id # last.m.original_id
                      /\ r.last_synced = 2
  /\ Cardinality(words) = 1

\* C30 (as claimed): is_edited is monotone - a row that has is_edited = 1
\* still has is_edited = 1 after every step.
C30_IsEditedMonotone ==
  [][\A r \in words :
       r.is_edited = 1 => \E q \in words' : q.id = r.id /\ q.is_edited = 1]_vars

\* C31: a delete without server_id tombstones exactly the sender's active
\* head for the word: the head keeps its id, word, device, payload and
\* lineage pointer and becomes a tombstone; every other row - of another
\* device, with another word, already tombstoned - is left as it was, and no
\* row is added or removed.
C31_DeleteByWord ==
  [][\A t \in Threads :
       (/\ k'[t] = k[t] + 1
        /\ Sent.is_deleted /\ Sent.server_id = NULL /\ strip(Sent.word) # <<>>)
       => LET H == {r \in words : /\ r.word = strip(Sent.word)
                                  /\ r.device_id = Sender /\ r.is_deleted = 0}
          IN /\ \A r \in words \ H : r \in words'
             /\ \A h \in H : \E q \in words' :
                  /\ q.id = h.id /\ q.is_deleted = 1
                  /\ q.word = h.word /\ q.device_id = h.device_id
                  /\ q.payload = h.payload /\ q.original_id = h.original_id
                  /\ q.is_edited = h.is_edited
             /\ Ids(words') = Ids(words)
             /\ Cardinality(words') = Cardinality(words)]_vars

\* a delete by word has tombstoned the sender's head while the store holds an
\* active row of the same word of another device and a row of another word
\* of the sender
C31_Witness ==
  /\ last.thread # NoThread
  /\ last.m.is_deleted /\ last.m.server_id = NULL /\ last.counted = 1
  /\ \E r \in words : /\ r.word = strip(last.m.word)
                      /\ r.device_id = last.device_id /\ r.is_deleted = 1
  /\ \E r \in words : /\ r.word = strip(last.m.word)
                      /\ r.device_id # last.device_id /\ r.is_deleted = 0

\* C32: delete has priority - a list element with is_deleted set, whatever
\* its is_edited, original_id and payload, is handled as a delete only: no
\* row is inserted or removed, no row's payload, lineage pointer or is_edited
\* changes, the rows that change become tombstones, and nothing is appended
\* to server_ids.
C32_DeletePriority ==
  [][\A t \in Threads :
       (k'[t] = k[t] + 1 /\ Sent.is_deleted)
       => /\ Ids(words') = Ids(words)
          /\ Cardinality(words') = Cardinality(words)
          /\ \A r \in words : \E q \in words' :
               /\ q.id = r.id /\ q.word = r.word /\ q.device_id = r.device_id
               /\ q.payload = r.payload /\ q.original_id = r.original_id
               /\ q.is_edited = r.is_edited
               /\ q # r => q.is_deleted = 1
          /\ server_ids'[t] = server_ids[t]]_vars

\* a delete that also carries is_edited, an original_id and another payload
\* than the stored one has tombstoned the sender's head, which keeps its
\* payload and its is_edited = 0
C32_Witness ==
  /\ last.thread # NoThread
  /\ last.m.is_deleted /\ last.m.is_edited /\ last.m.original_id # NULL
  /\ last.counted = 1 /\ last.ids = <<>>
  /\ \E r \in words : /\ r.device_id = last.device_id /\ r.is_deleted = 1
                      /\ r.is_edited = 0
                      /\ r.payload # last.m.payload
                      /\ r.id # last.m.original_id
  /\ \E r \in words : r.id = last.m.original_id /\ r.is_deleted = 0

\* C33: a sub-batch is one transactional unit. While its items are merged the
\* committed table does not change; entering it changes nothing; when it ends
\* with the commit, the committed table becomes the table as the items left
\* it; when an exception escapes it, the table is again the committed one from
\* before the sub-batch, which holds what the request's earlier sub-batches
\* committed.
C33_SubBatchTransactional ==
  [][\A t \in Threads :
       /\ (pc[t] = "batch" /\ pc'[t] = "items")
            => Committed' = Committed /\ words' = Committed
       /\ (pc[t] = "items" /\ pc'[t] = "items") => Committed' = Committed
       /\ (pc[t] = "items" /\ pc'[t] \in {"batch", "finalize"})
            => Committed' = words
       /\ (pc[t] = "items" /\ pc'[t] = "idle")
            => Committed' = Committed /\ words' = Committed]_vars

\* a request has failed at the commit of its second sub-batch: the row its
\* first sub-batch created is committed and active, the counted delete of
\* that row in the second sub-batch has been undone
C33_Witness ==
  /\ pc["t1"] = "idle" /\ response["t1"].status = "error"
  /\ response["t1"].message \in {LockedMessage, GeneratorMessage}
  /\ last.thread = "t1" /\ last.m.is_deleted /\ last.counted = 1
  /\ \E r \in words : /\ r.word = strip(last.m.word)
                      /\ r.device_id = last.device_id
                      /\ r.is_deleted = 0 /\ r.last_synced = clock

\* C34: guaranteed release - whenever a thread holds the gate the gate is
\* free again later, whether the sub-batch commits or an exception leaves
\* it, and a thread waiting to enter a sub-batch or the final transaction
\* does not wait forever.
C34_GuaranteedRelease ==
  \A t \in Threads :
    /\ (db_lock = t) ~> (db_lock = NoThread)
    /\ (pc[t] = "batch") ~> (pc[t] # "batch")
    /\ (pc[t] = "finalize") ~> (pc[t] = "idle")

\* thread t2 waits for the gate that thread t1 holds in a sub-batch whose
\* connection was opened at the last attempt left
C34_Witness ==
  /\ db_lock = "t1" /\ pc["t1"] = "items" /\ attempt["t1"] = retries
  /\ pc["t2"] = "batch"
  /\ ~ENABLED BeginBatch("t2")

\* C35 (as claimed): item atomicity on failure - a list element whose merge
\* raised leaves the words table as it was before the element.
C35_ItemAtomicity ==
  [][\A t \in Threads :
       (k'[t] = k[t] + 1 /\ last'.error) => words' = words]_vars

\* C36 (as claimed): re-create after delete - a plain create for a word of
\* which the sender holds only tombstones is merged: it is counted, an id is
\* returned, and the sender has exactly one active row for the word.
C36_RecreateAfterDelete ==
  [][\A t \in Threads :
       LET w == strip(Sent.word)
       IN (/\ k'[t] = k[t] + 1
           /\ IsPlainCreate(Sent) /\ ~Raises(Sent) /\ w # <<>>
           /\ \A r \in words : (r.word = w /\ r.device_id = Sender)
                                 => r.is_deleted = 1
           /\ \E r \in words : r.word = w /\ r.device_id = Sender)
          => /\ synced_count'[t] = synced_count[t] + 1
             /\ Len(server_ids'[t]) = Len(server_ids[t]) + 1
             /\ Cardinality({r \in words' : /\ r.word = w /\ r.device_id = Sender
                                            /\ r.is_deleted = 0}) = 1]_vars

\* C37: last write wins per head - after a non-delete list element has been
\* merged (counted), the sender has exactly one active row for the word and
\* it carries the payload of that element; and the payload of a row that
\* stays active changes in no other step.
C37_LastWriteWins ==
  [][/\ \A t \in Threads :
          (k'[t] = k[t] + 1 /\ ~Sent.is_deleted /\ last'.counted = 1)
          => LET H == {r \in words' : /\ r.word = strip(Sent.word)
                                      /\ r.device_id = Sender
                                      /\ r.is_deleted = 0}
             IN Cardinality(H) = 1 /\ \A h \in H : h.payload = Sent.payload
     /\ \A r \in words, q \in words' :
          (q.id = r.id /\ q.is_deleted = 0 /\ q.payload # r.payload)
          => /\ IsApply /\ ~Sent.is_deleted /\ last'.counted = 1
             /\ r.word = strip(Sent.word) /\ r.device_id = Sender
             /\ q.payload = Sent.payload]_vars

\* the second request has rewritten in place the head the first request
\* created: the only row carries the second payload content, the one the
\* last element sent
C37_Witness ==
  /\ last.thread # NoThread /\ ~last.m.is_deleted /\ last.counted = 1
  /\ last.m.payload = MaxAnyPayload
  /\ Cardinality(words) = 1
  /\ \E r \in words : /\ last.ids = <<r.id>> /\ r.is_deleted = 0
                      /\ r.payload = last.m.payload
                      /\ r.last_synced = 2 /\ seq = r.id
  /\ Len(sync_log) = 1 /\ sync_log[1].details = 1

\* the sub-batches thread t may be committing: its length, its last element
\* the element visited last
CommittingBatches(t) ==
  {b \in IF BatchLen(t) <= MaxWords
         THEN [1..BatchLen(t) -> SerialItems]
         ELSE {[j \in 1..BatchLen(t) |-> m] : m \in PartItems} :
     b[Len(b)] = last.m}

\* C38: serializability at sub-batch granularity - the committed words table
\* changes only when a thread commits a sub-batch, and then it becomes what
\* merging that whole sub-batch, alone and in input order, makes of the
\* committed table of just before; the sub-batches of one request are
\* committed in input order.
C38_Serializable ==
  [][Committed' # Committed =>
       \E t \in Threads :
         /\ pc[t] = "items" /\ pc'[t] \in {"batch", "finalize"}
         /\ i[t] = batch_size * (Len(parts[t]) - 1)
         /\ Flatten(parts[t]) = Positions(i[t] + BatchLen(t))
         /\ \E b \in CommittingBatches(t) :
              Committed' = ApplyBatch(Committed, snapshot.seq, device_id[t],
                                      current_time[t], b).words]_vars

\* a sub-batch of thread t2 runs between the two sub-batches of the request
\* of thread t1: the first one is committed, the second one not yet entered,
\* and t2 has tombstoned the row that the first one created
C38_Witness ==
  /\ pc["t1"] = "batch" /\ i["t1"] = batch_size
  /\ pc["t2"] = "items" /\ db_lock = "t2"
  /\ last.thread = "t2" /\ last.m.is_deleted /\ last.counted = 1
  /\ current_time["t1"] < current_time["t2"]
  /\ \E r \in words : /\ r.device_id = device_id["t1"]
                      /\ r.last_synced = current_time["t2"]
                      /\ r.is_deleted = 1
  /\ \E r \in Committed : /\ r.device_id = device_id["t1"]
                          /\ r.last_synced = current_time["t1"]
                          /\ r.is_deleted = 0

\* C39: a delete that carries a server_id changes only rows whose id or
\* original_id is that server_id, and adds or removes none; when no active
\* row has that id or original_id, the table is unchanged - the sender's
\* active head for the word included - and the element is not counted.
C39_DeleteById ==
  [][\A t \in Threads :
       (/\ k'[t] = k[t] + 1
        /\ Sent.is_deleted /\ Sent.server_id # NULL /\ strip(Sent.word) # <<>>)
       => /\ \A r \in words :
               (r.id # Sent.server_id /\ r.original_id # Sent.server_id)
               => r \in words'
          /\ Ids(words') = Ids(words)
          /\ Cardinality(words') = Cardinality(words)
          /\ (\A r \in words :
                (r.id = Sent.server_id \/ r.original_id = Sent.server_id)
                => r.is_deleted = 1)
             => /\ words' = words
                /\ synced_count'[t] = synced_count[t]]_vars

\* a delete naming the sender's word and a server_id that no row has was
\* visited: it is not counted and the sender's head for the word is active
C39_Witness ==
  /\ last.thread # NoThread
  /\ last.m.is_deleted /\ last.m.server_id # NULL /\ last.counted = 0
  /\ last.m.server_id \notin Ids(words)
  /\ \E r \in words : /\ r.word = strip(last.m.word)
                      /\ r.device_id = last.device_id /\ r.is_deleted = 0

\* C40: at-most-once application - within one request every sub-batch is
\* entered at most once and every input position is visited at most once:
\* the j-th sub-batch entered holds, in order, positions of the j-th slice of
\* the input and nothing else, whatever lock contention the store reports.
C40_AtMostOnce ==
  \A t \in Threads :
    /\ \A j \in 1..Len(parts[t]) :
         /\ Len(parts[t][j]) <= batch_size
         /\ \A x \in 1..Len(parts[t][j]) :
              parts[t][j][x] = (j - 1) * batch_size + x
    /\ pc[t] = "items" => Len(parts[t]) = (i[t] \div batch_size) + 1
    /\ pc[t] \in {"batch", "finalize"} => Len(parts[t]) = i[t] \div batch_size

\* the commit of a sub-batch was answered "database is locked" while
\* connection attempts were left: the retry loop opened a connection again,
\* the sub-batch was not run again - the row its counted create had inserted
\* is not in the table - and the request has failed
C40_Witness ==
  /\ pc["t1"] = "idle" /\ response["t1"].status = "error"
  /\ response["t1"].message = GeneratorMessage
  /\ attempt["t1"] <= retries
  /\ last.thread = "t1" /\ IsPlainCreate(last.m) /\ last.counted = 1
  /\ last.ids # <<>>
  /\ \A r \in words : r.id # last.ids[1]

====
